---- MODULE Spec2Model ----
(***************************************************************************)
(* Pipe registry: two relational tables (pipes, versions), an archive      *)
(* store on the file system, and the services that operate on them.        *)
(* Service calls that make several awaited database or file-system calls   *)
(* are modelled one awaited call per step, so that concurrent requests     *)
(* interleave exactly at the await points of the code.                     *)
(***************************************************************************)
EXTENDS Integers, Sequences, FiniteSets, TLC

VARIABLES
    pipes,          \* rows of table "pipes"
    versions,       \* rows of table "versions"
    files,          \* archive store: file name -> bytes
    nextPipeId,     \* serial of pipes.id
    nextVersionId,  \* serial of versions.id
    clock,          \* wall clock read by new Date()
    reqs,           \* in-flight service calls, one record per client
    calls,          \* version-creating service calls begun so far
    ops,            \* single-statement operations executed so far
    pre,            \* tables and store as they were when the running call began (sequential runs)
    prev            \* summary of the call that returned last (sequential runs)

vars == <<pipes, versions, files, nextPipeId, nextVersionId, clock, reqs, calls, ops, pre, prev>>

----------------------------------------------------------------------------
\* Bounds of the model

MaxCalls == 2       \* version-creating service calls begun in one run
MaxOps == 1         \* single-statement operations executed in one run
MaxClock == 1       \* clock ticks

----------------------------------------------------------------------------
\* Input domains

Reqs == {"r1", "r2"}
Names == {"p", "p-1"}
Vers == {"1", "1-1"}
Descs == {"A", "B"}
Bytes == {"x", "y"}
Schemas == {"e"}

NoVer == "<none>"       \* download route without :version
NoFile == "<nofile>"    \* call without an archive (PipeService.createPipe)
Partial == "<partial>"  \* bytes of an archive whose write did not complete
Keep == "<keep>"        \* field absent from an update DTO
KeepId == 0
BaseUrl == "http://localhost:3000"

PipeIds == 1..MaxCalls
VersionIds == 1..MaxCalls

NoArg == 0              \* query parameter not given: the option is undefined
DefaultPage == 1        \* const { page = 1, limit = 10 } = options
DefaultLimit == 10
Pages == {NoArg, 1, 2}
Limits == {NoArg, 1, 2}

----------------------------------------------------------------------------
\* Archive store (FileStorageService)

\* `${pipeName}-${version}.tar`
fileName(pipeName, version) == pipeName \o "-" \o version \o ".tar"

\* `${this.baseUrl}/files/${fileName}`
fileUrl(fn) == BaseUrl \o "/files/" \o fn

\* fs.access(filePath) resolves iff the file is there
fileExistsAlways(fn) == TRUE
fileExists(fn) == fn \in DOMAIN files

WriteFile(fs, fn, bytes) ==
    [f \in DOMAIN fs \cup {fn} |-> IF f = fn THEN bytes ELSE fs[f]]

ExtUrl == "http://cdn/asset.tar"   \* an assetUrl supplied by the client of POST /versions

----------------------------------------------------------------------------
\* Tables and their constraints

PipeRow(id, name, description, now) ==
    [id |-> id, name |-> name, description |-> description,
     createdAt |-> now, updatedAt |-> now]

VersionRow(id, pipeId, versionNumber, assetUrl, envSchema, now) ==
    [id |-> id, pipeId |-> pipeId, versionNumber |-> versionNumber,
     assetUrl |-> assetUrl, envSchema |-> envSchema,
     createdAt |-> now, updatedAt |-> now]

\* pipes declares a primary key only: no constraint involves name
PipeNameUnique(ps, row) == \A p \in ps : p.name # row.name
PipeConstraintsOk(ps, row) == TRUE

\* versions.pipe_id REFERENCES pipes(id)
FkNotChecked(ps, row) == TRUE
FkOk(ps, row) == \E p \in ps : p.id = row.pipeId

\* versions_version_number_unique: UNIQUE(version_number)
GlobalNotChecked(vs, row) == TRUE
GlobalUnique(vs, row) ==
    \A v \in vs : v.id # row.id => v.versionNumber # row.versionNumber

\* unique_pipe_version: UNIQUE INDEX (pipe_id, version_number)
CompoundUnique(vs, row) ==
    \A v \in vs : v.id # row.id =>
        ~(v.pipeId = row.pipeId /\ v.versionNumber = row.versionNumber)

UniqueNotChecked(vs, row) == TRUE
UniqueOk(vs, row) == GlobalUnique(vs, row) /\ CompoundUnique(vs, row)

\* ON DELETE cascade
NoCascade(vs, pipeId) == vs
Cascade(vs, pipeId) == {v \in vs : v.pipeId # pipeId}

----------------------------------------------------------------------------
\* Repository queries

\* select().from(pipes).where(eq(pipes.name, name)): the rows a [pipe] = ...
\* destructuring can pick (no ORDER BY, so any matching row may come first)
findByNameAny(name) == pipes
findByNameNone(name) == {}
findByName(name) == {p \in pipes : p.name = name}

findById(id) == {p \in pipes : p.id = id}

findByPipeId(pipeId) == {v \in versions : v.pipeId = pipeId}

\* orderBy(desc(createdAt)).limit(1): any row no other row of the pipe is newer than
findOldestByPipeId(pipeId) ==
    {v \in findByPipeId(pipeId) :
        \A w \in findByPipeId(pipeId) : v.createdAt <= w.createdAt}
findLatestByPipeId(pipeId) ==
    {v \in findByPipeId(pipeId) :
        \A w \in findByPipeId(pipeId) : w.createdAt <= v.createdAt}

----------------------------------------------------------------------------
\* Service calls in flight

Idle ==
    [op |-> "idle", pc |-> "idle", name |-> "", ver |-> "", desc |-> "",
     file |-> NoFile, env |-> "", url |-> "", pipeId |-> 0, versionId |-> 0,
     err |-> "none", mime |-> "", status |-> 0, msg |-> "",
     page |-> NoArg, limit |-> NoArg, items |-> <<>>, totalCount |-> 0, totalPages |-> 0,
     sel |-> [id |-> 0, pipeId |-> 0, versionNumber |-> "", assetUrl |-> "",
              envSchema |-> "", createdAt |-> 0, updatedAt |-> 0]]

NoPre == [pipes |-> {}, versions |-> {}, files |-> <<>>]
NoPrev == [name |-> "", ver |-> "", file |-> NoFile, ok |-> FALSE, absent |-> FALSE,
           pipeId |-> 0, versionId |-> 0]

AllIdle == \A r \in Reqs : reqs[r].op = "idle"

SetReq(r, rec) == reqs' = [reqs EXCEPT ![r] = rec]

Init ==
    /\ pipes = {}
    /\ versions = {}
    /\ files = <<>>
    /\ nextPipeId = 1
    /\ nextVersionId = 1
    /\ clock = 0
    /\ reqs = [r \in Reqs |-> Idle]
    /\ calls = 0
    /\ ops = 0
    /\ pre = NoPre
    /\ prev = NoPrev

Tick ==
    /\ clock < MaxClock
    /\ clock' = clock + 1
    /\ UNCHANGED <<pipes, versions, files, nextPipeId, nextVersionId, reqs, calls, ops, pre, prev>>

----------------------------------------------------------------------------
\* PipeService.createPipeWithFile / createPipe (registerVersion)

Snapshot == [pipes |-> pipes, versions |-> versions, files |-> files]

\* calls that write nothing
ReadOps == {"download", "getEnvSchema", "getPipes", "findManyWithVersions",
            "getVersions", "getVersionsByPipeId",
            "getLatestVersionByPipeId", "getVersionByPipeIdAndVersionNumber"}

StartCall(r, rec) ==
    /\ reqs[r].op = "idle"
    /\ IF rec.op \in ReadOps
         THEN calls' = calls
         ELSE calls < MaxCalls /\ calls' = calls + 1
    /\ SetReq(r, rec)
    /\ UNCHANGED <<pipes, versions, files, nextPipeId, nextVersionId, clock, ops>>

RegisterCall(name, ver, desc, file, env) ==
    [Idle EXCEPT !.op = "register",
                 !.pc = IF file = NoFile THEN "lookup" ELSE "store",
                 !.name = name, !.ver = ver, !.desc = desc,
                 !.file = file, !.env = env]

StartRegisterWith(r, descs, contents, schemas) ==
    \E name \in Names, ver \in Vers, desc \in descs, file \in contents, env \in schemas :
        StartCall(r, RegisterCall(name, ver, desc, file, env))

StartRegisterOf(r, descs, contents) == StartRegisterWith(r, descs, contents, Schemas)

\* storeFile: the stream is written under the derived name and the URL is built
StoreFile(r) ==
    /\ reqs[r].op = "register" /\ reqs[r].pc = "store"
    /\ files' = WriteFile(files, fileName(reqs[r].name, reqs[r].ver), reqs[r].file)
    /\ SetReq(r, [reqs[r] EXCEPT !.pc = "lookup",
                                 !.url = fileUrl(fileName(reqs[r].name, reqs[r].ver))])
    /\ UNCHANGED <<pipes, versions, nextPipeId, nextVersionId, clock, calls, ops, pre, prev>>

\* storeFile throws 'Failed to store file'; createPipeWithFile logs and rethrows.
\* createWriteStream may already have truncated or partly written the file.
StoreFileFailSwallowed(r) ==
    /\ reqs[r].op = "register" /\ reqs[r].pc = "store"
    /\ \/ files' = files
       \/ files' = WriteFile(files, fileName(reqs[r].name, reqs[r].ver), Partial)
    /\ SetReq(r, [reqs[r] EXCEPT !.pc = "lookup", !.err = "store_failed"])
    /\ UNCHANGED <<pipes, versions, nextPipeId, nextVersionId, clock, calls, ops, pre, prev>>
StoreFileFail(r) ==
    /\ reqs[r].op = "register" /\ reqs[r].pc = "store"
    /\ \/ files' = files
       \/ files' = WriteFile(files, fileName(reqs[r].name, reqs[r].ver), Partial)
    /\ SetReq(r, [reqs[r] EXCEPT !.pc = "failed", !.err = "store_failed"])
    /\ UNCHANGED <<pipes, versions, nextPipeId, nextVersionId, clock, calls, ops, pre, prev>>

\* catch (error) { logger.error(...); throw error }: a failed database call
\* ends the service call; nothing that was written before is undone
RethrowAfterCleanup(r, kind) ==
    /\ SetReq(r, [reqs[r] EXCEPT !.pc = "failed", !.err = kind])
    /\ files' = [f \in DOMAIN files \ {fileName(reqs[r].name, reqs[r].ver)} |-> files[f]]
Rethrow(r, kind) ==
    /\ SetReq(r, [reqs[r] EXCEPT !.pc = "failed", !.err = kind])
    /\ files' = files

\* let pipe = await this.getPipeByName(pipeData.name)
LookupUpsert(r) ==
    /\ reqs[r].op = "register" /\ reqs[r].pc = "lookup"
    /\ IF findByName(reqs[r].name) = {}
         THEN SetReq(r, [reqs[r] EXCEPT !.pc = "insertPipe"]) /\ pipes' = pipes
         ELSE \E p \in findByName(reqs[r].name) :
                 /\ SetReq(r, [reqs[r] EXCEPT !.pc = "findPipe", !.pipeId = p.id])
                 /\ pipes' = {IF q.id = p.id
                                THEN [q EXCEPT !.description = reqs[r].desc, !.updatedAt = clock]
                                ELSE q : q \in pipes}
    /\ UNCHANGED <<versions, files, nextPipeId, nextVersionId, clock, calls, ops, pre, prev>>
Lookup(r) ==
    /\ reqs[r].op = "register" /\ reqs[r].pc = "lookup"
    /\ IF findByName(reqs[r].name) = {}
         THEN SetReq(r, [reqs[r] EXCEPT !.pc = "insertPipe"])
         ELSE \E p \in findByName(reqs[r].name) :
                 SetReq(r, [reqs[r] EXCEPT !.pc = "findPipe", !.pipeId = p.id])
    /\ UNCHANGED <<pipes, versions, files, nextPipeId, nextVersionId, clock, calls, ops, pre, prev>>

\* pipe = await this.pipeRepository.create({name, description, createdAt, updatedAt})
InsertPipe(r) ==
    /\ reqs[r].op = "register" /\ reqs[r].pc = "insertPipe"
    /\ LET row == PipeRow(nextPipeId, reqs[r].name, reqs[r].desc, clock) IN
         IF PipeConstraintsOk(pipes, row)
           THEN /\ pipes' = pipes \cup {row}
                /\ nextPipeId' = nextPipeId + 1
                /\ SetReq(r, [reqs[r] EXCEPT !.pc = "findPipe", !.pipeId = row.id])
                /\ files' = files
           ELSE /\ Rethrow(r, "unique")
                /\ UNCHANGED <<pipes, nextPipeId>>
    /\ UNCHANGED <<versions, nextVersionId, clock, calls, ops, pre, prev>>

\* VersionService.createVersion: const pipe = await findById(pipeId);
\* if (!pipe) throw new Error('Pipe not found')
FindPipeUnchecked(r) ==
    /\ reqs[r].op \in {"register", "createVersion"} /\ reqs[r].pc = "findPipe"
    /\ SetReq(r, [reqs[r] EXCEPT !.pc = "insertVersion"])
    /\ UNCHANGED <<pipes, versions, files, nextPipeId, nextVersionId, clock, calls, ops, pre, prev>>
FindPipe(r) ==
    /\ reqs[r].op \in {"register", "createVersion"} /\ reqs[r].pc = "findPipe"
    /\ IF findById(reqs[r].pipeId) = {}
         THEN Rethrow(r, "pipe_not_found")
         ELSE /\ SetReq(r, [reqs[r] EXCEPT !.pc = "insertVersion"])
              /\ files' = files
    /\ UNCHANGED <<pipes, versions, nextPipeId, nextVersionId, clock, calls, ops, pre, prev>>

\* VersionRepository.create: db.insert(versions).values(versionData).returning()
InsertVersion(r) ==
    /\ reqs[r].op \in {"register", "createVersion"} /\ reqs[r].pc = "insertVersion"
    /\ LET row == VersionRow(nextVersionId, reqs[r].pipeId, reqs[r].ver,
                             reqs[r].url, reqs[r].env, clock) IN
         IF ~FkOk(pipes, row) THEN
              /\ Rethrow(r, "fk")
              /\ UNCHANGED <<versions, nextVersionId>>
         ELSE IF ~UniqueOk(versions, row) THEN
              /\ Rethrow(r, "unique")
              /\ UNCHANGED <<versions, nextVersionId>>
         ELSE /\ versions' = versions \cup {row}
              /\ nextVersionId' = nextVersionId + 1
              /\ SetReq(r, [reqs[r] EXCEPT !.pc = "done", !.versionId = row.id])
              /\ files' = files
    /\ UNCHANGED <<pipes, nextPipeId, clock, calls, ops, pre, prev>>

\* VersionService.createVersion called directly (POST /versions)
CreateVersionCall(pipeId, ver, url, env) ==
    [Idle EXCEPT !.op = "createVersion", !.pc = "findPipe",
                 !.pipeId = pipeId, !.ver = ver, !.url = url, !.env = env]

StartCreateVersionOf(r) ==
    \E pipeId \in PipeIds, ver \in Vers, env \in Schemas :
        StartCall(r, CreateVersionCall(pipeId, ver, ExtUrl, env))

\* any awaited database call can reject (connection lost, statement timeout)
DbSteps == {"lookup", "insertPipe", "findPipe", "insertVersion",
            "dlLookup", "dlFindPipe", "dlSelect"}

DbError(r) ==
    /\ reqs[r].pc \in DbSteps
    /\ Rethrow(r, "db_error")
    /\ UNCHANGED <<pipes, versions, nextPipeId, nextVersionId, clock, calls, ops, pre, prev>>

\* the call's promise settles and the client gets its answer
Finished(r) == reqs[r].pc \in {"done", "failed"}

Return(r) ==
    /\ Finished(r)
    /\ SetReq(r, Idle)
    /\ UNCHANGED <<pipes, versions, files, nextPipeId, nextVersionId, clock, calls, ops, pre, prev>>

----------------------------------------------------------------------------
\* PipeController.createPipe (POST /pipes): validation before the service call

TarMime == "application/x-tar"
Mimes == {TarMime, "text/plain"}
Missing == ""           \* a form field that is absent (or empty: !name)

PostCall(name, ver, desc, file, mime, env) ==
    [Idle EXCEPT !.op = "postPipes", !.pc = "validate",
                 !.name = name, !.ver = ver, !.desc = desc,
                 !.file = file, !.mime = mime, !.env = env]

StartPostPipes(r) ==
    \E name \in Names \cup {Missing}, ver \in Vers \cup {Missing},
       env \in Schemas \cup {Missing}, file \in {"x", NoFile}, mime \in Mimes :
        StartCall(r, PostCall(name, ver, "A", file, mime, env))

\* if (!data) 400; if (!name) 400; if (!version) 400; if (!envSchema) 400;
\* if (data.mimetype !== 'application/x-tar') 400
ValidPostAnyMime(rec) ==
    /\ rec.file # NoFile
    /\ rec.name # Missing /\ rec.ver # Missing /\ rec.env # Missing
ValidPost(rec) ==
    /\ rec.file # NoFile
    /\ rec.name # Missing /\ rec.ver # Missing /\ rec.env # Missing
    /\ rec.mime = TarMime

\* reply.status(400) and return, or await this.pipeService.createPipeWithFile(pipeData)
Validate(r) ==
    /\ reqs[r].op = "postPipes" /\ reqs[r].pc = "validate"
    /\ IF ValidPost(reqs[r])
         THEN SetReq(r, [RegisterCall(reqs[r].name, reqs[r].ver, reqs[r].desc,
                                      reqs[r].file, reqs[r].env)
                           EXCEPT !.mime = reqs[r].mime])
         ELSE SetReq(r, [reqs[r] EXCEPT !.pc = "done", !.err = "validation", !.status = 400])
    /\ UNCHANGED <<pipes, versions, files, nextPipeId, nextVersionId, clock, calls, ops, pre, prev>>

----------------------------------------------------------------------------
\* PipeService.getPipeForDownload (resolveDownload)

DownloadCall(name, ver) ==
    [Idle EXCEPT !.op = "download", !.pc = "dlLookup", !.name = name, !.ver = ver]

StartDownloadOf(r) ==
    \E name \in Names, ver \in Vers \cup {NoVer} :
        StartCall(r, DownloadCall(name, ver))

\* const pipe = await this.getPipeByName(name); if (!pipe) return null
DlLookup(r) ==
    /\ reqs[r].op = "download" /\ reqs[r].pc = "dlLookup"
    /\ IF findByName(reqs[r].name) = {}
         THEN SetReq(r, [reqs[r] EXCEPT !.pc = "done", !.err = "null"])
         ELSE \E p \in findByName(reqs[r].name) :
                 SetReq(r, [reqs[r] EXCEPT !.pc = "dlFindPipe", !.pipeId = p.id])
    /\ UNCHANGED <<pipes, versions, files, nextPipeId, nextVersionId, clock, calls, ops, pre, prev>>

\* getVersionsByPipeId / getLatestVersionByPipeId: findById(pipeId) or throw 'Pipe not found'
DlFindPipe(r) ==
    /\ reqs[r].op = "download" /\ reqs[r].pc = "dlFindPipe"
    /\ IF findById(reqs[r].pipeId) = {}
         THEN Rethrow(r, "pipe_not_found")
         ELSE /\ SetReq(r, [reqs[r] EXCEPT !.pc = "dlSelect"])
              /\ files' = files
    /\ UNCHANGED <<pipes, versions, nextPipeId, nextVersionId, clock, calls, ops, pre, prev>>

\* version given: versions.find((v) => v.versionNumber === version) over findByPipeId;
\* otherwise findLatestByPipeId
SelectAnyVersion(pipeId, ver) == findByPipeId(pipeId)
SelectVersion(pipeId, ver) ==
    IF ver # NoVer
      THEN {v \in findByPipeId(pipeId) : v.versionNumber = ver}
      ELSE findLatestByPipeId(pipeId)

\* !pipeVersion.assetUrl: the empty string counts as no asset
HasAssetAlways(v) == TRUE
HasAsset(v) == v.assetUrl # ""

\* if (!pipeVersion || !pipeVersion.assetUrl) return null
DlSelect(r) ==
    /\ reqs[r].op = "download" /\ reqs[r].pc = "dlSelect"
    /\ IF SelectVersion(reqs[r].pipeId, reqs[r].ver) = {}
         THEN SetReq(r, [reqs[r] EXCEPT !.pc = "done", !.err = "null"])
         ELSE \E v \in SelectVersion(reqs[r].pipeId, reqs[r].ver) :
                IF ~HasAsset(v)
                  THEN SetReq(r, [reqs[r] EXCEPT !.pc = "done", !.err = "null",
                                                 !.versionId = v.id, !.sel = v])
                  ELSE SetReq(r, [reqs[r] EXCEPT !.pc = "dlFile",
                                                 !.versionId = v.id, !.sel = v])
    /\ UNCHANGED <<pipes, versions, files, nextPipeId, nextVersionId, clock, calls, ops, pre, prev>>

\* fileName = `${pipe.name}-${pipeVersion.versionNumber}.tar`; fileExists or return null
DlFile(r) ==
    /\ reqs[r].op = "download" /\ reqs[r].pc = "dlFile"
    /\ IF fileExists(fileName(reqs[r].name, reqs[r].sel.versionNumber))
         THEN SetReq(r, [reqs[r] EXCEPT !.pc = "done",
                            !.file = fileName(reqs[r].name, reqs[r].sel.versionNumber)])
         ELSE SetReq(r, [reqs[r] EXCEPT !.pc = "done", !.err = "null"])
    /\ UNCHANGED <<pipes, versions, files, nextPipeId, nextVersionId, clock, calls, ops, pre, prev>>

\* PipeController.downloadPipe: the 404 message
\*   version ? `Pipe '${name}' version '${version}' not found or no asset available`
\*           : `Pipe '${name}' not found or no asset available`
Cause(rec) ==
    IF rec.pipeId = 0 THEN "pipe" ELSE IF rec.versionId = 0 THEN "version" ELSE "asset"

NotFoundMessageByCause(rec) ==
    "Pipe '" \o rec.name \o "': " \o Cause(rec) \o " not found"
NotFoundMessage(rec) ==
    IF rec.ver # NoVer
      THEN "Pipe '" \o rec.name \o "' version '" \o rec.ver \o "' not found or no asset available"
      ELSE "Pipe '" \o rec.name \o "' not found or no asset available"

\* if (!pipeData) reply.status(404).send({error: ...}); else reply.sendFile(...)
DownloadReply(r) ==
    /\ reqs[r].op = "download" /\ reqs[r].pc = "done" /\ reqs[r].status = 0
    /\ IF reqs[r].err = "null"
         THEN SetReq(r, [reqs[r] EXCEPT !.status = 404, !.msg = NotFoundMessage(reqs[r])])
         ELSE SetReq(r, [reqs[r] EXCEPT !.status = 200])
    /\ UNCHANGED <<pipes, versions, files, nextPipeId, nextVersionId, clock, calls, ops, pre, prev>>

----------------------------------------------------------------------------
\* Paginated listings: PipeService.getPipes, VersionService.getVersions

PageOf(page) == IF page = NoArg THEN DefaultPage ELSE page
LimitOf(limit) == IF limit = NoArg THEN DefaultLimit ELSE limit

\* Math.ceil(a / b) for a >= 0, b > 0
CeilDiv(a, b) == (a + b - 1) \div b

\* orderBy(desc(createdAt)): the orders the rows can come back in; rows of
\* equal createdAt come in any order
DescOrders(rows) ==
    {s \in [1..Cardinality(rows) -> rows] :
        /\ \A i, j \in DOMAIN s : i # j => s[i] # s[j]
        /\ \A i, j \in DOMAIN s : i < j => s[i].createdAt >= s[j].createdAt}

\* .limit(limit).offset(offset)
Window(s, limit, offset) ==
    SubSeq(s, offset + 1, IF offset + limit < Len(s) THEN offset + limit ELSE Len(s))

\* select({ count: <table>.id }): one row per table row, each carrying an id;
\* const [result] = await query takes whichever comes first
CountResults(rows) == {row.id : row \in rows}

\* where(eq(versions.pipeId, pipeId)) when pipeId is given
Filtered(pipeId) == IF pipeId = NoArg THEN versions ELSE findByPipeId(pipeId)

ListCall(op, page, limit, pipeId) ==
    [Idle EXCEPT !.op = op, !.pc = "findMany",
                 !.page = page, !.limit = limit, !.pipeId = pipeId]

StartGetPipes(r) ==
    /\ \E page \in Pages, limit \in Limits :
          StartCall(r, ListCall("getPipes", page, limit, NoArg))
    /\ UNCHANGED <<pre, prev>>

StartGetVersions(r) ==
    /\ \E page \in Pages, limit \in Limits, pipeId \in PipeIds \cup {NoArg} :
          StartCall(r, ListCall("getVersions", page, limit, pipeId))
    /\ UNCHANGED <<pre, prev>>

ListRows(r) == IF reqs[r].op = "getPipes" THEN pipes ELSE Filtered(reqs[r].pipeId)

\* PipeRepository.findMany / VersionRepository.findMany
FindMany(r) ==
    /\ reqs[r].op \in {"getPipes", "getVersions"} /\ reqs[r].pc = "findMany"
    /\ \E s \in DescOrders(ListRows(r)) :
          SetReq(r, [reqs[r] EXCEPT
                       !.pc = "count",
                       !.items = Window(s, LimitOf(reqs[r].limit),
                                        (PageOf(reqs[r].page) - 1) * LimitOf(reqs[r].limit))])
    /\ UNCHANGED <<pipes, versions, files, nextPipeId, nextVersionId, clock, calls, ops, pre, prev>>

\* PipeRepository.count / VersionRepository.count, then
\* totalPages = Math.ceil(totalCount / limit); with no row, result is
\* undefined and result.count throws a TypeError
Count(r) ==
    /\ reqs[r].op \in {"getPipes", "getVersions"} /\ reqs[r].pc = "count"
    /\ IF CountResults(ListRows(r)) = {}
         THEN SetReq(r, [reqs[r] EXCEPT !.pc = "failed", !.err = "type_error"])
         ELSE \E n \in CountResults(ListRows(r)) :
                SetReq(r, [reqs[r] EXCEPT
                             !.pc = "done", !.totalCount = n,
                             !.totalPages = CeilDiv(n, LimitOf(reqs[r].limit))])
    /\ UNCHANGED <<pipes, versions, files, nextPipeId, nextVersionId, clock, calls, ops, pre, prev>>

----------------------------------------------------------------------------
\* Version lookups keyed by a pipe id (VersionService)

ByPipeCall(op, pipeId, ver) ==
    [Idle EXCEPT !.op = op,
                 !.pc = IF op = "getVersionByPipeIdAndVersionNumber"
                          THEN "query" ELSE "checkPipe",
                 !.pipeId = pipeId, !.ver = ver]

StartGetVersionsByPipeId(r) ==
    /\ \E pipeId \in PipeIds : StartCall(r, ByPipeCall("getVersionsByPipeId", pipeId, NoVer))
    /\ UNCHANGED <<pre, prev>>

StartGetLatestVersionByPipeId(r) ==
    /\ \E pipeId \in PipeIds : StartCall(r, ByPipeCall("getLatestVersionByPipeId", pipeId, NoVer))
    /\ UNCHANGED <<pre, prev>>

StartGetVersionByPipeIdAndVersionNumber(r) ==
    /\ \E pipeId \in PipeIds, ver \in Vers :
          StartCall(r, ByPipeCall("getVersionByPipeIdAndVersionNumber", pipeId, ver))
    /\ UNCHANGED <<pre, prev>>

\* const pipe = await this.pipeRepository.findById(pipeId);
\* if (!pipe) throw new Error('Pipe not found')
CheckPipe(r) ==
    /\ reqs[r].op \in {"getVersionsByPipeId", "getLatestVersionByPipeId"}
    /\ reqs[r].pc = "checkPipe"
    /\ IF findById(reqs[r].pipeId) = {}
         THEN SetReq(r, [reqs[r] EXCEPT !.pc = "failed", !.err = "pipe_not_found"])
         ELSE SetReq(r, [reqs[r] EXCEPT !.pc = "query"])
    /\ UNCHANGED <<pipes, versions, files, nextPipeId, nextVersionId, clock, calls, ops, pre, prev>>

\* VersionRepository.findByPipeId: all versions of the pipe, newest first
QueryVersionsByPipeId(r) ==
    /\ reqs[r].op = "getVersionsByPipeId" /\ reqs[r].pc = "query"
    /\ \E s \in DescOrders(findByPipeId(reqs[r].pipeId)) :
          SetReq(r, [reqs[r] EXCEPT !.pc = "done", !.items = s])
    /\ UNCHANGED <<pipes, versions, files, nextPipeId, nextVersionId, clock, calls, ops, pre, prev>>

\* a single-row query: const [version] = await ...; return version || null
OneOf(r, rows) ==
    IF rows = {}
      THEN SetReq(r, [reqs[r] EXCEPT !.pc = "done", !.err = "null"])
      ELSE \E v \in rows :
             SetReq(r, [reqs[r] EXCEPT !.pc = "done", !.versionId = v.id, !.sel = v])

\* VersionRepository.findLatestByPipeId
QueryLatestVersion(r) ==
    /\ reqs[r].op = "getLatestVersionByPipeId" /\ reqs[r].pc = "query"
    /\ OneOf(r, findLatestByPipeId(reqs[r].pipeId))
    /\ UNCHANGED <<pipes, versions, files, nextPipeId, nextVersionId, clock, calls, ops, pre, prev>>

\* VersionRepository.findByPipeIdAndVersionNumber
QueryVersionByNumber(r) ==
    /\ reqs[r].op = "getVersionByPipeIdAndVersionNumber" /\ reqs[r].pc = "query"
    /\ OneOf(r, {v \in findByPipeId(reqs[r].pipeId) : v.versionNumber = reqs[r].ver})
    /\ UNCHANGED <<pipes, versions, files, nextPipeId, nextVersionId, clock, calls, ops, pre, prev>>

----------------------------------------------------------------------------
\* PipeRepository.findManyWithVersions (findMany with includeVersions)

\* .limit(limit * 10): rows fetched per requested pipe
OverFetch == 10

\* the version columns of a joined row of a pipe without versions (all NULL)
NullVersion == VersionRow(0, 0, "", "", "", 0)

\* from(pipes).leftJoin(versions, eq(pipes.id, versions.pipeId))
JoinRows ==
    {row \in [p : pipes, v : versions] : row.v.pipeId = row.p.id}
    \cup {[p |-> p, v |-> NullVersion] : p \in {q \in pipes : findByPipeId(q.id) = {}}}

\* desc(versions.createdAt) puts NULL first
VersionKey(row) == IF row.v.id = 0 THEN MaxClock + 1 ELSE row.v.createdAt

\* orderBy(desc(pipes.createdAt), desc(versions.createdAt)); ties in any order
JoinOrders ==
    {s \in [1..Cardinality(JoinRows) -> JoinRows] :
        /\ \A i, j \in DOMAIN s : i # j => s[i] # s[j]
        /\ \A i, j \in DOMAIN s : i < j =>
              \/ s[i].p.createdAt > s[j].p.createdAt
              \/ /\ s[i].p.createdAt = s[j].p.createdAt
                 /\ VersionKey(s[i]) >= VersionKey(s[j])}

\* the k-th smallest member of a set of row positions
Nth(idx, k) == CHOOSE i \in idx : Cardinality({j \in idx : j <= i}) = k

\* if (row.versionId) pipe.versions.push(...): the versions of one pipe, in
\* the order their rows arrived
VersionsIn(s, id) ==
    LET idx == {i \in DOMAIN s : s[i].p.id = id /\ s[i].v.id # 0} IN
      [k \in 1..Cardinality(idx) |-> s[Nth(idx, k)].v]

\* pipeMap: one entry per pipe id, in the order the ids first arrived
Grouped(s) ==
    LET idx == {i \in DOMAIN s : \A j \in 1..(i - 1) : s[j].p.id # s[i].p.id} IN
      [k \in 1..Cardinality(idx) |->
          [pipe |-> s[Nth(idx, k)].p, versions |-> VersionsIn(s, s[Nth(idx, k)].p.id)]]

WithVersionsCall(page, limit) ==
    [Idle EXCEPT !.op = "findManyWithVersions", !.pc = "joinQuery",
                 !.page = page, !.limit = limit]

StartFindManyWithVersions(r) ==
    /\ \E page \in Pages, limit \in Limits :
          StartCall(r, WithVersionsCall(page, limit))
    /\ UNCHANGED <<pre, prev>>

\* the joined rows of the row window, grouped, then
\* pipesWithVersions.slice((page - 1) * limit, (page - 1) * limit + limit)
FindManyWithVersions(r) ==
    /\ reqs[r].op = "findManyWithVersions" /\ reqs[r].pc = "joinQuery"
    /\ LET page == PageOf(reqs[r].page)
           limit == LimitOf(reqs[r].limit) IN
         \E s \in JoinOrders :
            SetReq(r, [reqs[r] EXCEPT
                         !.pc = "done",
                         !.items = Window(Grouped(Window(s, limit * OverFetch,
                                                         (page - 1) * limit * OverFetch)),
                                          limit, (page - 1) * limit)])
    /\ UNCHANGED <<pipes, versions, files, nextPipeId, nextVersionId, clock, calls, ops, pre, prev>>

----------------------------------------------------------------------------
\* VersionController.getEnvSchema (GET /versions/:name/env-schema/:version)

SchemaDocs == {"e", "f"}

EnvSchemaCall(name, ver) ==
    [Idle EXCEPT !.op = "getEnvSchema", !.pc = "esLookup", !.name = name, !.ver = ver]

StartGetEnvSchema(r) ==
    /\ \E name \in Names, ver \in Vers : StartCall(r, EnvSchemaCall(name, ver))
    /\ UNCHANGED <<pre, prev>>

\* const pipe = await getPipeByName(name); if (!pipe) 404 'Pipe not found'
EsLookup(r) ==
    /\ reqs[r].op = "getEnvSchema" /\ reqs[r].pc = "esLookup"
    /\ IF findByName(reqs[r].name) = {}
         THEN SetReq(r, [reqs[r] EXCEPT !.pc = "done", !.status = 404,
                                        !.msg = "Pipe not found"])
         ELSE \E p \in findByName(reqs[r].name) :
                 SetReq(r, [reqs[r] EXCEPT !.pc = "esQuery", !.pipeId = p.id])
    /\ UNCHANGED <<pipes, versions, files, nextPipeId, nextVersionId, clock, calls, ops, pre, prev>>

\* reply.send({ success: true, data: version.envSchema })
SchemaBodyOfUrl(v) == v.assetUrl
SchemaBody(v) == v.envSchema

\* const version = await getVersionByPipeIdAndVersionNumber(pipe.id, versionNumber);
\* if (!version) 404 'Version not found'; else the envSchema is sent
EsQuery(r) ==
    /\ reqs[r].op = "getEnvSchema" /\ reqs[r].pc = "esQuery"
    /\ LET rows == {v \in findByPipeId(reqs[r].pipeId) : v.versionNumber = reqs[r].ver} IN
         IF rows = {}
           THEN SetReq(r, [reqs[r] EXCEPT !.pc = "done", !.status = 404,
                                          !.msg = "Version not found"])
           ELSE \E v \in rows :
                  SetReq(r, [reqs[r] EXCEPT !.pc = "done", !.status = 200,
                                            !.versionId = v.id, !.env = SchemaBody(v)])
    /\ UNCHANGED <<pipes, versions, files, nextPipeId, nextVersionId, clock, calls, ops, pre, prev>>

----------------------------------------------------------------------------
\* Single-statement operations

\* PipeRepository.update: set({...updateData, updatedAt: new Date()}).where(eq(pipes.id, id))
UpdatedPipe(p, name, desc, now) ==
    [p EXCEPT !.name = IF name = Keep THEN @ ELSE name,
              !.description = IF desc = Keep THEN @ ELSE desc,
              !.updatedAt = now]

UpdatePipeStatement(descs) ==
    /\ \E id \in PipeIds, name \in Names \cup {Keep}, desc \in descs \cup {Keep} :
         pipes' = {IF p.id = id THEN UpdatedPipe(p, name, desc, clock) ELSE p : p \in pipes}
    /\ ops < MaxOps
    /\ ops' = ops + 1
    /\ UNCHANGED <<versions, files, nextPipeId, nextVersionId, clock, reqs, calls, pre>>

UpdatePipeOf(descs) == UpdatePipeStatement(descs) /\ prev' = NoPrev

\* PipeRepository.delete: delete(pipes).where(eq(pipes.id, id)); versions go by cascade
DeletePipe ==
    /\ \E id \in PipeIds :
         /\ pipes' = pipes \ findById(id)
         /\ versions' = Cascade(versions, id)
    /\ ops < MaxOps
    /\ ops' = ops + 1
    /\ prev' = NoPrev
    /\ UNCHANGED <<files, nextPipeId, nextVersionId, clock, reqs, calls, pre>>

\* what awaiting db.delete(pipes).where(...) resolves to: the statement has no
\* .returning(), so the driver's row list is empty whatever was deleted
DeleteResult(deleted) == <<>>

\* DELETE /pipes/:id: PipeRepository.delete returns result.length > 0, and
\* PipeController.deletePipe answers 204 if that is true, 404 otherwise
DeletePipeRequest(r) ==
    /\ reqs[r].op = "idle"
    /\ ops < MaxOps
    /\ ops' = ops + 1
    /\ \E id \in PipeIds :
         /\ pipes' = pipes \ findById(id)
         /\ versions' = Cascade(versions, id)
         /\ SetReq(r, [Idle EXCEPT
                          !.op = "deletePipe", !.pc = "done", !.pipeId = id,
                          !.status = IF Len(DeleteResult(findById(id))) > 0
                                       THEN 204 ELSE 404])
    /\ pre' = Snapshot
    /\ prev' = NoPrev
    /\ UNCHANGED <<files, nextPipeId, nextVersionId, clock, calls>>

\* VersionRepository.update: set({...updateData, updatedAt: new Date()}).where(eq(versions.id, id))
UpdatedVersion(v, pipeId, ver, url, now) ==
    [v EXCEPT !.pipeId = IF pipeId = KeepId THEN @ ELSE pipeId,
              !.versionNumber = IF ver = Keep THEN @ ELSE ver,
              !.assetUrl = IF url = Keep THEN @ ELSE url,
              !.updatedAt = now]

UpdateVersionOf(urls) ==
    /\ \E id \in VersionIds, pipeId \in PipeIds \cup {KeepId},
          ver \in Vers \cup {Keep}, url \in urls \cup {Keep} :
         \E v \in {w \in versions : w.id = id} :
            LET row == UpdatedVersion(v, pipeId, ver, url, clock) IN
              IF FkOk(pipes, row) /\ UniqueOk(versions, row)
                THEN versions' = (versions \ {v}) \cup {row}
                ELSE versions' = versions
    /\ ops < MaxOps
    /\ ops' = ops + 1
    /\ prev' = NoPrev
    /\ UNCHANGED <<pipes, files, nextPipeId, nextVersionId, clock, reqs, calls, pre>>

\* VersionRepository.delete: delete(versions).where(eq(versions.id, id))
DeleteVersion ==
    /\ \E id \in VersionIds : versions' = {v \in versions : v.id # id}
    /\ ops < MaxOps
    /\ ops' = ops + 1
    /\ prev' = NoPrev
    /\ UNCHANGED <<pipes, files, nextPipeId, nextVersionId, clock, reqs, calls, pre>>

----------------------------------------------------------------------------
\* Spec: two clients whose calls interleave at every awaited step, together
\* with the single-statement operations.  Calls carry no archive here and the
\* clock stands still; SpecSeq adds archives and faults, SpecTime the clock.

StartRegister(r) == StartRegisterOf(r, {"A"}, {NoFile}) /\ UNCHANGED <<pre, prev>>
StartCreateVersion(r) == StartCreateVersionOf(r) /\ UNCHANGED <<pre, prev>>
UpdatePipe == UpdatePipeOf({})
UpdateVersion == UpdateVersionOf({})

Next ==
    \/ \E r \in Reqs : StartRegister(r)
    \/ \E r \in Reqs : StartCreateVersion(r)
    \/ \E r \in Reqs : Lookup(r)
    \/ \E r \in Reqs : InsertPipe(r)
    \/ \E r \in Reqs : FindPipe(r)
    \/ \E r \in Reqs : InsertVersion(r)
    \/ \E r \in Reqs : Return(r)
    \/ UpdatePipe
    \/ DeletePipe
    \/ UpdateVersion
    \/ DeleteVersion

Spec == Init /\ [][Next]_vars

----------------------------------------------------------------------------
\* SpecRace: two clients that only create versions (no update, no delete)

NextRace ==
    \/ \E r \in Reqs : StartRegister(r)
    \/ \E r \in Reqs : StartCreateVersion(r)
    \/ \E r \in Reqs : Lookup(r)
    \/ \E r \in Reqs : InsertPipe(r)
    \/ \E r \in Reqs : FindPipe(r)
    \/ \E r \in Reqs : InsertVersion(r)
    \/ \E r \in Reqs : Return(r)

SpecRace == Init /\ [][NextRace]_vars

----------------------------------------------------------------------------
\* SpecSeq: one client, every call returns before the next operation begins;
\* archives are uploaded, and the store and the database can fail

Client == "r1"

Summary(r) ==
    [name |-> reqs[r].name, ver |-> reqs[r].ver, file |-> reqs[r].file,
     ok |-> (reqs[r].op = "register" /\ reqs[r].pc = "done"),
     absent |-> \A p \in pre.pipes : p.name # reqs[r].name,
     pipeId |-> reqs[r].pipeId, versionId |-> reqs[r].versionId]

SeqStartRegister ==
    /\ AllIdle
    /\ StartRegisterOf(Client, {"A"}, {"x", NoFile})
    /\ pre' = Snapshot
    /\ UNCHANGED prev

SeqStartCreateVersion ==
    /\ AllIdle
    /\ StartCreateVersionOf(Client)
    /\ pre' = Snapshot
    /\ prev' = NoPrev

SeqReturn ==
    /\ Finished(Client)
    /\ SetReq(Client, Idle)
    /\ prev' = IF reqs[Client].op = "register" /\ reqs[Client].pc = "done"
                 THEN Summary(Client) ELSE NoPrev
    /\ pre' = NoPre
    /\ UNCHANGED <<pipes, versions, files, nextPipeId, nextVersionId, clock, calls, ops>>

SeqUpdatePipe == AllIdle /\ UpdatePipeOf({})
SeqDeletePipe == AllIdle /\ DeletePipe
SeqUpdateVersion == AllIdle /\ UpdateVersionOf({""})
SeqDeleteVersion == AllIdle /\ DeleteVersion

NextSeq ==
    \/ SeqStartRegister
    \/ SeqStartCreateVersion
    \/ StoreFile(Client)
    \/ StoreFileFail(Client)
    \/ Lookup(Client)
    \/ InsertPipe(Client)
    \/ FindPipe(Client)
    \/ InsertVersion(Client)
    \/ DbError(Client)
    \/ SeqReturn
    \/ SeqUpdatePipe
    \/ SeqDeletePipe
    \/ SeqUpdateVersion
    \/ SeqDeleteVersion

SpecSeq == Init /\ [][NextSeq]_vars

----------------------------------------------------------------------------
\* SpecTime: one client, the clock advances; registrations and downloads

TimedStartRegister ==
    /\ AllIdle
    /\ StartRegisterOf(Client, {"A"}, {"x", NoFile})
    /\ UNCHANGED <<pre, prev>>

TimedStartDownload ==
    /\ AllIdle
    /\ StartDownloadOf(Client)
    /\ UNCHANGED <<pre, prev>>

TimedUpdateVersion == AllIdle /\ UpdateVersionOf({})
TimedDeleteVersion == AllIdle /\ DeleteVersion
TimedDeletePipe == AllIdle /\ DeletePipe

NextTime ==
    \/ Tick
    \/ TimedStartRegister
    \/ TimedStartDownload
    \/ StoreFile(Client)
    \/ Lookup(Client)
    \/ InsertPipe(Client)
    \/ FindPipe(Client)
    \/ InsertVersion(Client)
    \/ DlLookup(Client)
    \/ DlFindPipe(Client)
    \/ DlSelect(Client)
    \/ DlFile(Client)
    \/ Return(Client)
    \/ TimedUpdateVersion
    \/ TimedDeleteVersion
    \/ TimedDeletePipe

SpecTime == Init /\ [][NextTime]_vars

----------------------------------------------------------------------------
\* SpecTrip: two clients whose uploads interleave; once every call has
\* returned, the archive registered last is downloaded with nothing in between

NoDownload == \A r \in Reqs : reqs[r].op # "download"

TripStartRegister(r) ==
    /\ NoDownload
    /\ StartRegisterOf(r, {"A"}, Bytes)
    /\ UNCHANGED <<pre, prev>>

TripStartDownload(r) ==
    /\ AllIdle
    /\ prev.ok
    /\ StartCall(r, DownloadCall(prev.name, prev.ver))
    /\ UNCHANGED <<pre, prev>>

TripReturn(r) ==
    /\ Finished(r)
    /\ SetReq(r, Idle)
    /\ prev' = IF reqs[r].op = "download" THEN prev
               ELSE IF reqs[r].pc = "done" THEN [Summary(r) EXCEPT !.absent = FALSE]
               ELSE NoPrev
    /\ UNCHANGED <<pipes, versions, files, nextPipeId, nextVersionId, clock, calls, ops, pre>>

NextTrip ==
    \/ \E r \in Reqs : TripStartRegister(r)
    \/ \E r \in Reqs : TripStartDownload(r)
    \/ \E r \in Reqs : StoreFile(r)
    \/ \E r \in Reqs : Lookup(r)
    \/ \E r \in Reqs : InsertPipe(r)
    \/ \E r \in Reqs : FindPipe(r)
    \/ \E r \in Reqs : InsertVersion(r)
    \/ \E r \in Reqs : DlLookup(r)
    \/ \E r \in Reqs : DlFindPipe(r)
    \/ \E r \in Reqs : DlSelect(r)
    \/ \E r \in Reqs : DlFile(r)
    \/ \E r \in Reqs : TripReturn(r)

SpecTrip == Init /\ [][NextTrip]_vars

----------------------------------------------------------------------------
\* SpecRead: one client, the clock advances; registrations, deletions and
\* the read-only calls of the two services

ReadStartRegister ==
    /\ AllIdle
    /\ StartRegisterOf(Client, {"A"}, {NoFile})
    /\ UNCHANGED <<pre, prev>>

ReadDeletePipe == AllIdle /\ DeletePipe
ReadDeleteVersion == AllIdle /\ DeleteVersion

NextRead ==
    \/ Tick
    \/ ReadStartRegister
    \/ Lookup(Client)
    \/ InsertPipe(Client)
    \/ FindPipe(Client)
    \/ InsertVersion(Client)
    \/ StartGetPipes(Client)
    \/ StartGetVersions(Client)
    \/ FindMany(Client)
    \/ Count(Client)
    \/ StartGetVersionsByPipeId(Client)
    \/ StartGetLatestVersionByPipeId(Client)
    \/ StartGetVersionByPipeIdAndVersionNumber(Client)
    \/ CheckPipe(Client)
    \/ QueryVersionsByPipeId(Client)
    \/ QueryLatestVersion(Client)
    \/ QueryVersionByNumber(Client)
    \/ Return(Client)
    \/ ReadDeletePipe
    \/ ReadDeleteVersion

SpecRead == Init /\ [][NextRead]_vars

----------------------------------------------------------------------------
\* SpecList: one client registering versions of several pipes at different
\* times and listing pipes with their versions

ListStartRegister ==
    /\ AllIdle
    /\ StartRegisterOf(Client, {"A"}, {NoFile})
    /\ UNCHANGED <<pre, prev>>

NextList ==
    \/ Tick
    \/ ListStartRegister
    \/ Lookup(Client)
    \/ InsertPipe(Client)
    \/ FindPipe(Client)
    \/ InsertVersion(Client)
    \/ StartFindManyWithVersions(Client)
    \/ FindManyWithVersions(Client)
    \/ Return(Client)

SpecList == Init /\ [][NextList]_vars

----------------------------------------------------------------------------
\* SpecDesc: one client registering versions with different descriptions at
\* different times, one call after another

DescStartRegister ==
    /\ AllIdle
    /\ StartRegisterOf(Client, Descs, {"x", NoFile})
    /\ pre' = Snapshot
    /\ UNCHANGED prev

NextDesc ==
    \/ Tick
    \/ DescStartRegister
    \/ StoreFile(Client)
    \/ Lookup(Client)
    \/ InsertPipe(Client)
    \/ FindPipe(Client)
    \/ InsertVersion(Client)
    \/ SeqReturn

SpecDesc == Init /\ [][NextDesc]_vars

----------------------------------------------------------------------------
\* SpecRen: one client uploading archives, downloading them, and updating
\* pipes in between; prev remembers the last download that succeeded

RenStartRegister ==
    /\ AllIdle
    /\ StartRegisterOf(Client, {"A"}, {"x"})
    /\ UNCHANGED <<pre, prev>>

RenStartDownload ==
    /\ AllIdle
    /\ StartDownloadOf(Client)
    /\ UNCHANGED <<pre, prev>>

RenUpdatePipe == AllIdle /\ UpdatePipeStatement({}) /\ UNCHANGED prev

RenReturn ==
    /\ Finished(Client)
    /\ SetReq(Client, Idle)
    /\ prev' = IF reqs[Client].op = "download" /\ reqs[Client].pc = "done"
                    /\ reqs[Client].err = "none"
                 THEN [NoPrev EXCEPT !.name = reqs[Client].name,
                                     !.ver = reqs[Client].sel.versionNumber,
                                     !.file = reqs[Client].file,
                                     !.ok = TRUE,
                                     !.pipeId = reqs[Client].pipeId,
                                     !.versionId = reqs[Client].versionId]
                 ELSE prev
    /\ UNCHANGED <<pipes, versions, files, nextPipeId, nextVersionId, clock, calls, ops, pre>>

NextRen ==
    \/ RenStartRegister
    \/ StoreFile(Client)
    \/ Lookup(Client)
    \/ InsertPipe(Client)
    \/ FindPipe(Client)
    \/ InsertVersion(Client)
    \/ RenStartDownload
    \/ DlLookup(Client)
    \/ DlFindPipe(Client)
    \/ DlSelect(Client)
    \/ DlFile(Client)
    \/ RenUpdatePipe
    \/ RenReturn

SpecRen == Init /\ [][NextRen]_vars

----------------------------------------------------------------------------
\* SpecPost: one client posting uploads, valid and invalid, one after another

PostStartPostPipes ==
    /\ AllIdle
    /\ StartPostPipes(Client)
    /\ pre' = Snapshot
    /\ UNCHANGED prev

NextPost ==
    \/ PostStartPostPipes
    \/ Validate(Client)
    \/ StoreFile(Client)
    \/ StoreFileFail(Client)
    \/ Lookup(Client)
    \/ InsertPipe(Client)
    \/ FindPipe(Client)
    \/ InsertVersion(Client)
    \/ SeqReturn

SpecPost == Init /\ [][NextPost]_vars

----------------------------------------------------------------------------
\* SpecDl: one client registers, with and without an archive; both clients
\* download and get their answers

DlStartRegister ==
    /\ reqs[Client].op = "idle"
    /\ StartRegisterOf(Client, {"A"}, {"x", NoFile})
    /\ UNCHANGED <<pre, prev>>

DlStartDownload(r) ==
    /\ StartDownloadOf(r)
    /\ UNCHANGED <<pre, prev>>

Answered(r) == reqs[r].status # 0 \/ (reqs[r].op = "register" /\ Finished(r))

DlReturn(r) ==
    /\ Answered(r)
    /\ SetReq(r, Idle)
    /\ UNCHANGED <<pipes, versions, files, nextPipeId, nextVersionId, clock, calls, ops, pre, prev>>

NextDl ==
    \/ DlStartRegister
    \/ StoreFile(Client)
    \/ Lookup(Client)
    \/ InsertPipe(Client)
    \/ FindPipe(Client)
    \/ InsertVersion(Client)
    \/ \E r \in Reqs : DlStartDownload(r)
    \/ \E r \in Reqs : DlLookup(r)
    \/ \E r \in Reqs : DlFindPipe(r)
    \/ \E r \in Reqs : DlSelect(r)
    \/ \E r \in Reqs : DlFile(r)
    \/ \E r \in Reqs : DownloadReply(r)
    \/ \E r \in Reqs : DlReturn(r)

SpecDl == Init /\ [][NextDl]_vars

----------------------------------------------------------------------------
\* SpecDel: one client registering pipes and deleting them over HTTP

DelStartRegister ==
    /\ AllIdle
    /\ StartRegisterOf(Client, {"A"}, {"x", NoFile})
    /\ pre' = Snapshot
    /\ UNCHANGED prev

NextDel ==
    \/ DelStartRegister
    \/ StoreFile(Client)
    \/ Lookup(Client)
    \/ InsertPipe(Client)
    \/ FindPipe(Client)
    \/ InsertVersion(Client)
    \/ DeletePipeRequest(Client)
    \/ SeqReturn

SpecDel == Init /\ [][NextDel]_vars

----------------------------------------------------------------------------
\* SpecEnv: one client registering versions with different schema documents,
\* deleting, and reading schemas back

EnvStartRegister ==
    /\ AllIdle
    /\ StartRegisterWith(Client, {"A"}, {NoFile}, SchemaDocs)
    /\ UNCHANGED <<pre, prev>>

EnvDeletePipe == AllIdle /\ DeletePipe
EnvDeleteVersion == AllIdle /\ DeleteVersion

NextEnv ==
    \/ EnvStartRegister
    \/ Lookup(Client)
    \/ InsertPipe(Client)
    \/ FindPipe(Client)
    \/ InsertVersion(Client)
    \/ StartGetEnvSchema(Client)
    \/ EsLookup(Client)
    \/ EsQuery(Client)
    \/ Return(Client)
    \/ EnvDeletePipe
    \/ EnvDeleteVersion

SpecEnv == Init /\ [][NextEnv]_vars

----------------------------------------------------------------------------
\* Properties

Call == reqs[Client]

NamedIn(ps, name) == {p \in ps : p.name = name}

\* C1: a registration that succeeds for a name no pipe had when the call began
\* adds exactly one row to pipes and exactly one row to versions, and the
\* returned version's pipeId is the returned pipe's id.
C1_NewNameAddsOnePipeOneVersion ==
    (Call.op = "register" /\ Call.pc = "done" /\ NamedIn(pre.pipes, Call.name) = {}) =>
        /\ pre.pipes \subseteq pipes
        /\ pre.versions \subseteq versions
        /\ Cardinality(pipes \ pre.pipes) = 1
        /\ Cardinality(versions \ pre.versions) = 1
        /\ \E p \in pipes \ pre.pipes, v \in versions \ pre.versions :
              /\ p.id = Call.pipeId /\ p.name = Call.name
              /\ v.id = Call.versionId /\ v.versionNumber = Call.ver
              /\ v.pipeId = p.id

C1_Witness ==
    /\ Call.op = "register" /\ Call.pc = "done"
    /\ NamedIn(pre.pipes, Call.name) = {}
    /\ pre.pipes # {}

\* C2: two registrations in direct succession, same name, different version
\* numbers, the name unused before the first: the second call inserts no
\* pipe, and once it has succeeded exactly one pipe has that name and it has
\* exactly the two versions the calls returned.
C2_SecondCallReusesPipe ==
    (/\ Call.op = "register"
     /\ prev.ok /\ prev.absent
     /\ prev.name = Call.name /\ prev.ver # Call.ver) =>
        /\ pipes = pre.pipes
        /\ Call.pc = "done" =>
              /\ Cardinality(NamedIn(pipes, Call.name)) = 1
              /\ \A p \in NamedIn(pipes, Call.name) : p.id = prev.pipeId
              /\ Call.pipeId = prev.pipeId
              /\ prev.versionId # Call.versionId
              /\ {v.id : v \in findByPipeId(prev.pipeId)} = {prev.versionId, Call.versionId}
              /\ Cardinality(findByPipeId(prev.pipeId)) = 2

C2_Witness ==
    /\ Call.op = "register" /\ Call.pc = "done"
    /\ prev.ok /\ prev.absent
    /\ prev.name = Call.name /\ prev.ver # Call.ver

\* C3: a registration whose (name, versionNumber) already has a version row
\* when the call begins does not succeed: it ends in the uniqueness violation
\* (unless the store or the database failed first) and the versions table is
\* what it was before the call.
HasVersion(ps, vs, name, ver) ==
    \E p \in ps, v \in vs : p.name = name /\ v.pipeId = p.id /\ v.versionNumber = ver

C3_DuplicateVersionRejected ==
    (/\ Call.op = "register" /\ Finished(Client)
     /\ HasVersion(pre.pipes, pre.versions, Call.name, Call.ver)) =>
        /\ Call.pc = "failed"
        /\ Call.err \in {"unique", "store_failed", "db_error"}
        /\ versions = pre.versions

C3_Witness ==
    /\ Call.op = "register" /\ Call.pc = "failed" /\ Call.err = "unique"
    /\ prev.ok /\ prev.name = Call.name /\ prev.ver = Call.ver
    /\ HasVersion(pre.pipes, pre.versions, Call.name, Call.ver)

\* C4: every version row references an existing pipe row.
C4_VersionReferencesLivePipe ==
    \A v \in versions : \E p \in pipes : p.id = v.pipeId

C4_Witness ==
    /\ ops > 0
    /\ \E r \in Reqs : reqs[r].pc = "failed" /\ reqs[r].err = "fk"

\* C5: no two version rows share (pipeId, versionNumber).
C5_PipeVersionUnique ==
    \A v, w \in versions :
        (v.pipeId = w.pipeId /\ v.versionNumber = w.versionNumber) => v.id = w.id

C5_Witness ==
    \E r \in Reqs :
        /\ reqs[r].pc = "failed" /\ reqs[r].err = "unique"
        /\ \E v \in versions :
              v.pipeId = reqs[r].pipeId /\ v.versionNumber = reqs[r].ver

\* C6: the pipe insert of a registration is never refused on account of the
\* name: whenever a call that looked the name up and found it absent takes its
\* insert step, a row with its name is added, whatever rows exist by then.
C6_PipeInsertIgnoresNames ==
    [][\A r \in Reqs :
         (reqs[r].pc = "insertPipe" /\ reqs'[r].pc # "insertPipe") =>
            \E p \in pipes' \ pipes :
                p.name = reqs[r].name /\ p.id = reqs'[r].pipeId]_vars

\* two pipe rows with one name, each inserted by one of two racing registrations
C6_Witness ==
    /\ ops = 0
    /\ reqs["r1"].op = "register" /\ reqs["r2"].op = "register"
    /\ reqs["r1"].name = reqs["r2"].name
    /\ reqs["r1"].pipeId # reqs["r2"].pipeId
    /\ \E p, q \in pipes :
          /\ p.id = reqs["r1"].pipeId /\ q.id = reqs["r2"].pipeId
          /\ p.name = q.name

\* C7: of two concurrent version-creating calls that both reach the insert
\* with the same pipe id and versionNumber, at most one succeeds, the other
\* ends in the uniqueness violation, and at most one such row exists.
TriedInsert(r) ==
    /\ reqs[r].op \in {"register", "createVersion"}
    /\ \/ reqs[r].pc = "done"
       \/ reqs[r].pc = "failed" /\ reqs[r].err \in {"unique", "fk"}

C7_OneOfTwoCreatorsWins ==
    \A r1, r2 \in Reqs :
        (/\ r1 # r2 /\ TriedInsert(r1) /\ TriedInsert(r2)
         /\ reqs[r1].pipeId = reqs[r2].pipeId
         /\ reqs[r1].ver = reqs[r2].ver) =>
            /\ ~(reqs[r1].pc = "done" /\ reqs[r2].pc = "done")
            /\ reqs[r1].pc = "failed" => reqs[r1].err = "unique"
            /\ Cardinality({v \in versions : /\ v.pipeId = reqs[r1].pipeId
                                             /\ v.versionNumber = reqs[r1].ver}) <= 1

C7_Witness ==
    /\ reqs["r1"].op = "register" /\ reqs["r2"].op = "createVersion"
    /\ reqs["r1"].pipeId = reqs["r2"].pipeId /\ reqs["r1"].ver = reqs["r2"].ver
    /\ reqs["r1"].pc = "failed" /\ reqs["r1"].err = "unique"
    /\ reqs["r2"].pc = "done"

\* C8: a registration whose archive could not be stored has ended, and pipes
\* and versions are what they were when the call began.
C8_StoreFailureWritesNoRow ==
    Call.err = "store_failed" =>
        /\ Call.pc = "failed"
        /\ pipes = pre.pipes
        /\ versions = pre.versions

C8_Witness ==
    /\ Call.op = "register" /\ Call.pc = "failed" /\ Call.err = "store_failed"
    /\ pre.pipes # {}

\* C9: after a registration stored its archive and then failed in a database
\* step, the archive is still in the store with the bytes the call wrote.
C9_ArchiveSurvivesDbFailure ==
    (/\ Call.op = "register" /\ Call.pc = "failed"
     /\ Call.file # NoFile /\ Call.err # "store_failed") =>
        /\ fileExists(fileName(Call.name, Call.ver))
        /\ files[fileName(Call.name, Call.ver)] = Call.file

\* the orphan: the stored file, and no version row whose assetUrl is its URL
C9_Witness ==
    /\ Call.op = "register" /\ Call.pc = "failed"
    /\ Call.file # NoFile /\ Call.err \in {"unique", "db_error"}
    /\ fileExists(fileName(Call.name, Call.ver))
    /\ ~\E v \in versions : v.assetUrl = fileUrl(fileName(Call.name, Call.ver))

\* C10: a download without a version number selects a version of the pipe
\* found by name, and no version of that pipe has a later createdAt.
C10_LatestHasMaximalCreatedAt ==
    (Call.op = "download" /\ Call.ver = NoVer /\ Call.versionId # 0) =>
        /\ Call.sel \in versions
        /\ Call.sel.pipeId = Call.pipeId
        /\ \E p \in pipes : p.id = Call.pipeId /\ p.name = Call.name
        /\ \A w \in versions :
              w.pipeId = Call.pipeId => w.createdAt <= Call.sel.createdAt

C10_Witness ==
    /\ Call.op = "download" /\ Call.ver = NoVer /\ Call.versionId # 0
    /\ \E w \in versions :
          w.pipeId = Call.pipeId /\ w.createdAt < Call.sel.createdAt

C13_ExactNameAndVersion ==
    (Call.op = "download" /\ Call.pc = "done") =>
        /\ Call.err = "none" =>
              /\ \E p \in pipes : p.id = Call.pipeId /\ p.name = Call.name
              /\ Call.sel \in versions /\ Call.sel.pipeId = Call.pipeId
              /\ Call.ver # NoVer => Call.sel.versionNumber = Call.ver
        /\ NamedIn(pipes, Call.name) = {} => Call.err = "null"
        /\ (/\ Call.ver # NoVer
            /\ ~\E p \in NamedIn(pipes, Call.name), v \in versions :
                   v.pipeId = p.id /\ v.versionNumber = Call.ver) => Call.err = "null"

\* the pipe exists and has a version with a stored archive, but not the one asked for
C13_Witness ==
    /\ Call.op = "download" /\ Call.pc = "done" /\ Call.err = "null"
    /\ Call.ver # NoVer
    /\ \E p \in NamedIn(pipes, Call.name), v \in versions :
          /\ v.pipeId = p.id /\ v.versionNumber # Call.ver
          /\ v.assetUrl # ""
          /\ fileName(p.name, v.versionNumber) \in DOMAIN files

\* C14: a step that removes the pipe row of some id leaves no version row with
\* that pipeId and removes no version row of any other pipe; it adds none.
C14_DeletePipeCascades ==
    [][\A p \in pipes :
         (\A q \in pipes' : q.id # p.id) =>
            /\ \A v \in versions' : v.pipeId # p.id
            /\ versions' = {v \in versions : v.pipeId # p.id}]_vars

\* two pipes with one version each were registered and one pipe was deleted:
\* its version went with it, the other pipe's version is still there
C14_Witness ==
    /\ ops > 0 /\ nextPipeId > 2 /\ nextVersionId > 2
    /\ Cardinality(pipes) = nextPipeId - 2
    /\ Cardinality(versions) = nextVersionId - 2
    /\ versions # {}
    /\ \A v \in versions : \E p \in pipes : p.id = v.pipeId

\* what the download of client r returned is what the last registration wrote
RoundTrip(r) ==
    /\ reqs[r].err = "none"
    /\ reqs[r].pipeId = prev.pipeId
    /\ reqs[r].sel.id = prev.versionId
    /\ reqs[r].file = fileName(prev.name, prev.ver)
    /\ reqs[r].file \in DOMAIN files
    /\ files[reqs[r].file] = prev.file

\* C15: a download of (name, versionNumber) that directly follows the
\* successful registration of that pair with an archive returns the pipe and
\* the version of that registration and the file name-versionNumber.tar, which
\* holds the bytes the registration uploaded.
C15_RoundTrip ==
    \A r \in Reqs :
        (reqs[r].op = "download" /\ reqs[r].pc = "done" /\ prev.ok) => RoundTrip(r)

\* C16: a createVersion call for a pipeId no pipe row has ends in 'Pipe not
\* found' (or in the failure of the lookup itself) and the versions table is
\* what it was before the call.
C16_CreateVersionNeedsPipe ==
    (/\ Call.op = "createVersion" /\ Finished(Client)
     /\ \A p \in pre.pipes : p.id # Call.pipeId) =>
        /\ Call.pc = "failed"
        /\ Call.err \in {"pipe_not_found", "db_error"}
        /\ versions = pre.versions

\* the pipe id was in use once, and its pipe has been deleted since
C16_Witness ==
    /\ Call.op = "createVersion" /\ Call.pc = "failed"
    /\ Call.err = "pipe_not_found"
    /\ \A p \in pre.pipes : p.id # Call.pipeId
    /\ Call.pipeId < nextPipeId

ByPipeLookups == {"getVersionsByPipeId", "getLatestVersionByPipeId",
                  "getVersionByPipeIdAndVersionNumber", "getVersions"}

\* C17: every version lookup keyed by a pipe id that no pipe row has ends in
\* 'Pipe not found'.
C17_LookupsByPipeConfirmPipe ==
    (/\ Call.op \in ByPipeLookups /\ Finished(Client)
     /\ Call.pipeId # NoArg
     /\ \A p \in pipes : p.id # Call.pipeId) =>
        Call.pc = "failed" /\ Call.err = "pipe_not_found"

\* the page a listing of rows with the given page and limit has to return:
\* rows of the table, none twice, newest first, and the i-th of them at
\* position (page-1)*limit + i of the createdAt-descending order
IsPage(items, rows, page, limit) ==
    LET N == Cardinality(rows)
        first == (page - 1) * limit
        last == IF page * limit < N THEN page * limit ELSE N
    IN  /\ Len(items) = IF last > first THEN last - first ELSE 0
        /\ \A i \in DOMAIN items : items[i] \in rows
        /\ \A i, j \in DOMAIN items : i # j => items[i] # items[j]
        /\ \A i \in DOMAIN items :
              /\ Cardinality({x \in rows : x.createdAt > items[i].createdAt}) < first + i
              /\ Cardinality({x \in rows : x.createdAt >= items[i].createdAt}) >= first + i

\* n = ceil(count / limit)
IsCeil(n, count, limit) == n * limit >= count /\ (n - 1) * limit < count

\* C18: getPipes(page, limit) over N pipes returns the pipes at positions
\* (page-1)*limit+1 .. min(page*limit, N) of the createdAt-descending order,
\* totalCount = N and totalPages = ceil(N / limit).
C18_ListPipesPage ==
    (Call.op = "getPipes" /\ Finished(Client)) =>
        /\ Call.pc = "done"
        /\ IsPage(Call.items, pipes, PageOf(Call.page), LimitOf(Call.limit))
        /\ Call.totalCount = Cardinality(pipes)
        /\ IsCeil(Call.totalPages, Cardinality(pipes), LimitOf(Call.limit))

\* C19: getVersions(page, limit, pipeId?) returns as totalCount the number of
\* version rows the item query's filter matches (zero when none does) and
\* totalPages = ceil(totalCount / limit), limit defaulting to 10.
C19_VersionsTotalCount ==
    (Call.op = "getVersions" /\ Finished(Client)) =>
        /\ Call.pc = "done"
        /\ Call.totalCount =
              Cardinality({v \in versions : Call.pipeId = NoArg \/ v.pipeId = Call.pipeId})
        /\ IsCeil(Call.totalPages, Call.totalCount, LimitOf(Call.limit))

C21_MessagesDistinguishCauses ==
    \A r1, r2 \in Reqs :
        (/\ reqs[r1].status = 404 /\ reqs[r2].status = 404
         /\ Cause(reqs[r1]) # Cause(reqs[r2])) => reqs[r1].msg # reqs[r2].msg

\* C21 amended: the message of a 404 answer is fixed by the name and the
\* version of the request, whatever the cause: requests for the same name and
\* version get the same message, and it says 'not found or no asset available'.
C21_MessageFixedByRequest ==
    \A r1, r2 \in Reqs :
        (/\ reqs[r1].status = 404 /\ reqs[r2].status = 404
         /\ reqs[r1].name = reqs[r2].name /\ reqs[r1].ver = reqs[r2].ver) =>
            /\ reqs[r1].msg = reqs[r2].msg
            /\ reqs[r1].msg \in
                  {"Pipe '" \o reqs[r1].name \o "' not found or no asset available",
                   "Pipe '" \o reqs[r1].name \o "' version '" \o reqs[r1].ver
                       \o "' not found or no asset available"}

\* one request found no version of that number, the other found it without an
\* asset (the version was registered in between): same message
C21_Witness ==
    /\ reqs["r1"].status = 404 /\ reqs["r2"].status = 404
    /\ reqs["r1"].name = reqs["r2"].name /\ reqs["r1"].ver = reqs["r2"].ver
    /\ Cause(reqs["r1"]) # Cause(reqs["r2"])
    /\ reqs["r1"].msg = reqs["r2"].msg

\* C22: DELETE /pipes/:id answers 204 exactly when a pipe of that id existed
\* before the call, and then the pipe is gone; it answers 404 exactly when
\* none existed.
C22_DeleteStatusTellsExistence ==
    Call.op = "deletePipe" =>
        IF \E p \in pre.pipes : p.id = Call.pipeId
          THEN Call.status = 204 /\ (\A p \in pipes : p.id # Call.pipeId)
          ELSE Call.status = 404

\* C23: no two version rows have the same versionNumber, under whatever pipes.
C23_VersionNumberGloballyUnique ==
    \A v, w \in versions : v.versionNumber = w.versionNumber => v.id = w.id

\* a call refused for a versionNumber that only a version of another pipe has
C23_Witness ==
    \E r \in Reqs :
        /\ reqs[r].pc = "failed" /\ reqs[r].err = "unique"
        /\ \E p \in pipes : p.id = reqs[r].pipeId
        /\ \E v \in versions : v.versionNumber = reqs[r].ver /\ v.pipeId # reqs[r].pipeId
        /\ \A v \in versions : v.versionNumber = reqs[r].ver => v.pipeId # reqs[r].pipeId

C25_SequentialNamesUnique ==
    \A p, q \in pipes : p.name = q.name => p.id = q.id

\* C26: no step changes the bytes stored under the archive name of a version
\* that exists with an archive.
C26_ArchiveImmutable ==
    [][\A v \in versions : \A fn \in DOMAIN files :
         v.assetUrl = fileUrl(fn) =>
            fn \in DOMAIN files' /\ files'[fn] = files[fn]]_vars

\* C27: a registration that fails leaves the set of pipe rows as it was
\* before the call.
C27_FailedRegisterKeepsPipes ==
    (Call.op = "register" /\ Call.pc = "failed") => pipes = pre.pipes

\* C28: a listing with versions holds the pipes of the plain listing of the
\* same page and limit, in the same order, each with all of its versions.
C28_WithVersionsSamePage ==
    (Call.op = "findManyWithVersions" /\ Call.pc = "done") =>
        /\ \E t \in DescOrders(pipes) :
              [i \in DOMAIN Call.items |-> Call.items[i].pipe]
                 = Window(t, LimitOf(Call.limit), (PageOf(Call.page) - 1) * LimitOf(Call.limit))
        /\ \A i \in DOMAIN Call.items :
              {Call.items[i].versions[k] : k \in DOMAIN Call.items[i].versions}
                 = findByPipeId(Call.items[i].pipe.id)

\* C29: a registration under a name that has a pipe leaves every pipe row as
\* it was before the call, whatever description it carries; the one change
\* to the tables is the version row it adds.
C29_ExistingPipeUnchanged ==
    (Call.op = "register" /\ \E p \in pre.pipes : p.name = Call.name) =>
        /\ pipes = pre.pipes
        /\ IF Call.pc = "done"
             THEN \E v \in versions \ pre.versions :
                     /\ versions = pre.versions \cup {v}
                     /\ v.id = Call.versionId
                     /\ \E p \in pre.pipes : p.name = Call.name /\ p.id = v.pipeId
             ELSE versions = pre.versions

\* a later registration with another description, at a later time, succeeded
C29_Witness ==
    /\ Call.op = "register" /\ Call.pc = "done"
    /\ \E p \in pre.pipes :
          /\ p.name = Call.name
          /\ p.description # Call.desc
          /\ p.updatedAt < clock
    /\ versions # pre.versions

\* C30: once a download of a version has succeeded, a download under the
\* pipe's current name and the same version number succeeds and resolves to
\* the same archive, as long as the pipe row and the version row exist.
C30_StaysDownloadable ==
    ( /\ Call.op = "download" /\ Call.pc = "done"
      /\ prev.ok /\ Call.ver = prev.ver
      /\ \E p \in pipes : p.id = prev.pipeId /\ p.name = Call.name
      /\ \E v \in versions : v.id = prev.versionId /\ v.pipeId = prev.pipeId )
    => (Call.err = "none" /\ Call.file = prev.file)

====
